---- MODULE Spec2Model ----
(***************************************************************************)
(* Entity-with-optional-image lifecycle of the admin panel: the REST       *)
(* handlers of categories, partners and announcements (POST, PUT, DELETE), *)
(* the zod schemas that decode the imageUrl field, the upload route and    *)
(* deleteUploadIfLocal.  A handler is modelled step by step, one step per  *)
(* awaited store or file-system call, so that two requests can interleave. *)
(***************************************************************************)
EXTENDS Integers, Sequences, FiniteSets, TLC

VARIABLES
    store,   \* the entity store: kind -> id -> record
    blobs,   \* the files under public/uploads
    issued,  \* the file names the upload route has handed out
    reqs,    \* the requests in flight, one per slot
    prev,    \* observer: the request answered last
    up,      \* observer: the request the upload route answered last
    ui,      \* the form being submitted in the browser
    categories,  \* _categories of the in-memory db
    partners,    \* _partners of the in-memory db
    ret,     \* observer: the last call of the in-memory db and what it returned
    jar,     \* the trlco_session cookie the browser holds
    gate,    \* observer: the request the middleware saw last and its answer
    table,   \* the rows findMany reads, with their createdAt and datePublished
    listing  \* observer: the answer of the last GET list, while the rows stay

\* the in-memory db, which no route uses
dbVars == <<categories, partners, ret>>

\* the session cookie and the middleware
authVars == <<jar, gate>>

\* the rows as the list routes see them
listVars == <<table, listing>>

\* what the entity handlers never touch
aside == <<up, ui, dbVars, authVars, listVars>>

vars == <<store, blobs, issued, reqs, prev, aside>>

---------------------------------------------------------------------------
(* Bounds of the model *)

\* names the upload route hands out in one run, each at most once
NumFiles == 1

\* rows the three tables hold together
MaxRows == 3

---------------------------------------------------------------------------
(* JavaScript values of type string | null | undefined.  A string is a     *)
(* sequence of segments behind the tag "S": "" is <<"S">>.                  *)

UNDEF == <<"U">>
NULLV == <<"N">>
EMPTY == <<"S">>
UrlExt == <<"S", "https://", "cdn.example", "x.png">>
UrlFtp == <<"S", "ftp://", "x.png">>

IsString(v) == v[1] = "S"

Kinds == {"category", "partner", "announcement"}
\* one record id per entity kind
Ids == {1}
Slots == {1, 2}

\* `${Date.now()}_${randomBytes(6).toString("hex")}${ext}`, by order of issue
FileStamp(i) ==
    CASE i = 1 -> "a" [] i = 2 -> "b" [] i = 3 -> "c" [] OTHER -> "d"
Stamps == {FileStamp(i) : i \in 1..NumFiles}
uploadName(stamp, ext) == stamp \o ext
\* the names of the uploads of type image/jpeg
FileName(i) == uploadName(FileStamp(i), ".jpg")
FileNames == {FileName(i) : i \in 1..NumFiles}

uploadPath(name) == <<"cwd", "public", "uploads", name>>
uploadUrl(name) == <<"S", "/uploads/", name>>
UploadUrls == {uploadUrl(n) : n \in FileNames}
UrlA == uploadUrl(FileName(1))

\* the non-image field of a body: category name, partner name, announcement title
RawNames == {"Al", "Bo"}
RawImages == {UNDEF, NULLV, UrlExt, UrlFtp} \cup UploadUrls
Bodies == [name : RawNames, imageUrl : RawImages]

---------------------------------------------------------------------------
(* lib/validators.ts *)

\* String.prototype.trim on segments: whitespace segments at both ends go
RECURSIVE trimLeft(_)
trimLeft(segs) ==
    IF segs # <<>> /\ Head(segs) = " " THEN trimLeft(Tail(segs)) ELSE segs

RECURSIVE trimRight(_)
trimRight(segs) ==
    IF segs # <<>> /\ segs[Len(segs)] = " "
    THEN trimRight(SubSeq(segs, 1, Len(segs) - 1))
    ELSE segs

trim(v) == <<"S">> \o trimRight(trimLeft(Tail(v)))

\* the refine predicate of the imageUrl schemas
imageUrlRefine(v) ==
    \/ v = EMPTY
    \/ (Len(v) >= 2 /\ v[2] = "/uploads/")
    \/ (Len(v) >= 2 /\ v[2] \in {"http://", "https://", "HTTP://", "HTTPS://"})

\* union [string.trim.refine, null, undefined] then transform "" -> null
imageUrlValid(v) == IF IsString(v) THEN imageUrlRefine(trim(v)) ELSE TRUE

\* a schema without the transform of "" to null
imageUrlSchema_keepsEmpty(v) == IF IsString(v) THEN trim(v) ELSE v

imageUrlSchema(v) ==
    IF IsString(v)
    THEN (IF trim(v) = EMPTY THEN NULLV ELSE trim(v))
    ELSE v

\* z.string().min(2) on the name / title
nameValid(n) == n \notin {"", "x"}

safeParse(body) == nameValid(body.name) /\ imageUrlValid(body.imageUrl)

parsedData(body) == [name |-> body.name, imageUrl |-> imageUrlSchema(body.imageUrl)]

---------------------------------------------------------------------------
(* lib/uploads.ts *)

\* a guard that looks at the prefix only
isLocalUpload_prefixOnly(url) ==
    /\ IsString(url)
    /\ url # EMPTY
    /\ url[2] = "/uploads/"

isLocalUpload(url) ==
    /\ IsString(url)
    /\ url # EMPTY
    /\ url[2] = "/uploads/"
    /\ \A i \in 2..Len(url) : url[i] # ".."

\* path.join(process.cwd(), "public", url): "." is dropped, ".." pops
RECURSIVE pathJoin(_, _)
pathJoin(acc, segs) ==
    IF segs = <<>> THEN acc
    ELSE LET h == Head(segs) IN
         IF h = "." THEN pathJoin(acc, Tail(segs))
         ELSE IF h = ".."
              THEN pathJoin(IF acc = <<>> THEN acc ELSE SubSeq(acc, 1, Len(acc) - 1), Tail(segs))
         ELSE IF h = "/uploads/" THEN pathJoin(Append(acc, "uploads"), Tail(segs))
         ELSE pathJoin(Append(acc, h), Tail(segs))

toFsPath(url) == pathJoin(<<"cwd", "public">>, Tail(url))

\* unlink(path): removes the file; ENOENT or an I/O error throws
unlinkFile(files, path, ioOk) == IF ioOk THEN files \ {path} ELSE files

\* the address handed to unlink, UNDEF when the guard returns early
unlinkTarget(url) == IF isLocalUpload(url) THEN url ELSE UNDEF

\* a cleanup that never unlinks
deleteUploadIfLocal_noop(files, url, ioOk) == files

deleteUploadIfLocal(files, url, ioOk) ==
    IF ~isLocalUpload(url) THEN files
    ELSE unlinkFile(files, toFsPath(url), ioOk)

---------------------------------------------------------------------------
(* The entity store (prisma) and the request slots *)

NoRec == [live |-> FALSE, name |-> "-", imageUrl |-> UNDEF]
EmptyStore == [k \in Kinds |-> [i \in Ids |-> NoRec]]
NoSnap == [store |-> EmptyStore, blobs |-> {}]

\* a request: its position, its input, what it read, and what it did
Idle ==
    [pc |-> "idle", method |-> "-", kind |-> "-", id |-> 0,
     body |-> [name |-> "-", imageUrl |-> UNDEF],
     existing |-> NoRec, status |-> 0,
     called |-> FALSE,      \* deleteUploadIfLocal was called
     unlinked |-> UNDEF,    \* the address unlink was called for
     ioErr |-> FALSE,       \* unlink threw an I/O error
     lastWrite |-> FALSE,   \* this request made the latest store write
     pre |-> NoSnap]        \* the store and the files when the request arrived

NoPrev == [method |-> "-", kind |-> "-", id |-> 0, imageUrl |-> UNDEF, status |-> 0,
           unlinked |-> UNDEF]

\* a lookup that never misses
findUnique_neverNull(st, k, id) ==
    IF st[k][id].live THEN st[k][id] ELSE [live |-> TRUE, name |-> "Al", imageUrl |-> NULLV]

\* prisma.<kind>.findUnique({ where: { id } })
findUnique(st, k, id) == st[k][id]

\* Category.name carries a unique index
uniqueOk(st, k, id, name) ==
    k = "category" => \A j \in Ids \ {id} : ~(st[k][j].live /\ st[k][j].name = name)

\* a create that drops the image
createRecord_noImage(data) == [live |-> TRUE, name |-> data.name, imageUrl |-> NULLV]

\* prisma.<kind>.create({ data: parsed.data }): a missing imageUrl is stored as null
createRecord(data) ==
    [live |-> TRUE, name |-> data.name,
     imageUrl |-> IF data.imageUrl = UNDEF THEN NULLV ELSE data.imageUrl]

\* an update that always writes the image field, undefined as null
putRecord_alwaysImage(existing, data) ==
    [live |-> TRUE, name |-> data.name,
     imageUrl |-> IF data.imageUrl # UNDEF THEN data.imageUrl ELSE NULLV]

\* PUT: const data = { ...fields }; if (imageUrl !== undefined) data.imageUrl = imageUrl
putRecord(existing, data) ==
    [live |-> TRUE, name |-> data.name,
     imageUrl |-> IF data.imageUrl # UNDEF THEN data.imageUrl ELSE existing.imageUrl]

\* the guard without the comparison with the old image
putDeletesOld_noCompare(existing, data) == data.imageUrl # UNDEF

\* a guard that is always passed
putDeletesOld_always(existing, data) == TRUE

\* the guard with the comparison turned round
putDeletesOld_whenSame(existing, data) ==
    data.imageUrl # UNDEF /\ data.imageUrl = existing.imageUrl

\* PUT: if (imageUrl !== undefined && imageUrl !== existing.imageUrl)
putDeletesOld(existing, data) ==
    data.imageUrl # UNDEF /\ data.imageUrl # existing.imageUrl

FreeIds(k) == {i \in Ids : ~store[k][i].live}
newId(k) == IF FreeIds(k) = {} THEN 0 ELSE CHOOSE i \in FreeIds(k) : \A j \in FreeIds(k) : i <= j

Snapshot == [store |-> store, blobs |-> blobs]

CanBegin(s) == reqs[s].pc = "idle"
\* one request at a time: the first slot, nothing else in flight
Serial(s) == s = 1 /\ \A t \in Slots : CanBegin(t)

Done(r, code) == [r EXCEPT !.pc = "done", !.status = code]

\* the request in slot s has made the latest store write
Wrote(s) == [t \in Slots |-> IF t = s THEN [reqs[t] EXCEPT !.pc = "written", !.lastWrite = TRUE]
                                       ELSE [reqs[t] EXCEPT !.lastWrite = FALSE]]

---------------------------------------------------------------------------
(* api/upload/route.ts *)

MAX_BYTES == 5 * 1024 * 1024
ALLOWED == {"image/jpeg", "image/png", "image/webp", "image/gif"}

\* the "file" field of the form: a File with its type, its size and the
\* extension of its name, or none
NoFile == [isFile |-> FALSE, type |-> "", size |-> 0, ext |-> ""]
FileTypes == ALLOWED \cup {"", "application/pdf", "image/svg+xml"}
FileSizes == {0, MAX_BYTES - 1, MAX_BYTES, MAX_BYTES + 1, 6 * 1024 * 1024}
\* extname(file.name): "" for a name without one
OrigExts == {"", ".jpg", ".exe"}
UpFiles ==
    {NoFile} \cup [isFile : {TRUE}, type : FileTypes, size : FileSizes, ext : OrigExts]
JpegFiles == {f \in UpFiles : f.type = "image/jpeg" /\ f.ext = ".jpg"}

\* const type = file.type || "application/octet-stream"
typeOf(file) == IF file.type = "" THEN "application/octet-stream" ELSE file.type

\* an extension taken from the name of the file where it has one
extOf_origFirst(type, origExt) ==
    IF origExt # "" THEN origExt
    ELSE CASE type = "image/jpeg" -> ".jpg"
           [] type = "image/png" -> ".png"
           [] type = "image/webp" -> ".webp"
           [] type = "image/gif" -> ".gif"
           [] OTHER -> ".bin"

\* the extension by MIME type, for any other type origExt || ".bin"
extOf(type, origExt) ==
    CASE type = "image/jpeg" -> ".jpg"
      [] type = "image/png" -> ".png"
      [] type = "image/webp" -> ".webp"
      [] type = "image/gif" -> ".gif"
      [] OTHER -> IF origExt # "" THEN origExt ELSE ".bin"
Exts == {extOf(t, e) : t \in FileTypes \cup {"application/octet-stream"}, e \in OrigExts}

\* the checks with the size looked at first
uploadCheck_sizeFirst(file) ==
    IF ~file.isFile THEN "No file provided"
    ELSE IF file.size > MAX_BYTES THEN "File too large (max 5MB)"
    ELSE IF typeOf(file) \notin ALLOWED THEN "Unsupported file type"
    ELSE "ok"

\* the checks with a file of MAX_BYTES turned away
uploadCheck_sizeInclusive(file) ==
    IF ~file.isFile THEN "No file provided"
    ELSE IF typeOf(file) \notin ALLOWED THEN "Unsupported file type"
    ELSE IF file.size >= MAX_BYTES THEN "File too large (max 5MB)"
    ELSE "ok"

\* the checks of POST, in their order: the error message, or "ok"
uploadCheck(file) ==
    IF ~file.isFile THEN "No file provided"
    ELSE IF typeOf(file) \notin ALLOWED THEN "Unsupported file type"
    ELSE IF file.size > MAX_BYTES THEN "File too large (max 5MB)"
    ELSE "ok"

\* a stamp `${Date.now()}_${randomBytes(6).toString("hex")}` is never issued twice
FreshStamps == {t \in Stamps : \A e \in Exts : uploadName(t, e) \notin issued}

\* the response: { error } with 400, or { url } with 201
uploadResponse(file, stamp) ==
    IF uploadCheck(file) # "ok"
    THEN [status |-> 400, error |-> uploadCheck(file), url |-> UNDEF]
    ELSE [status |-> 201, error |-> "-",
          url |-> uploadUrl(uploadName(stamp, extOf(typeOf(file), file.ext)))]

\* POST: the checks, then the bytes written under a fresh name
UploadPOST(file, stamp) ==
    LET name == uploadName(stamp, extOf(typeOf(file), file.ext))
    IN  /\ IF uploadCheck(file) # "ok"
           THEN UNCHANGED <<blobs, issued>>
           ELSE /\ stamp \in FreshStamps
                /\ issued' = issued \cup {name}
                /\ blobs' = blobs \cup {uploadPath(name)}
        /\ UNCHANGED <<store, reqs, prev>>

\* the route module exports POST only: any other method is answered 405 by
\* the framework and runs no code of the route
UploadDELETE(url) == UNCHANGED <<store, blobs, issued, reqs, prev>>

NoUp == [method |-> "-", file |-> NoFile, query |-> UNDEF, status |-> 0, error |-> "-",
         url |-> UNDEF, pre |-> [blobs |-> {}, issued |-> {}]]

\* an upload of a JPEG image
Upload ==
    \E file \in JpegFiles, stamp \in Stamps :
        UploadPOST(file, stamp) /\ UNCHANGED aside

---------------------------------------------------------------------------
(* api/<kind>/route.ts POST *)

POST(s, k, body, dbOk, snap) ==
    LET r == [Idle EXCEPT !.method = "POST", !.kind = k, !.body = body, !.pre = snap]
        data == parsedData(body)
        id == newId(k)
    IN  /\ CanBegin(s)
        /\ IF ~safeParse(body)
           THEN /\ reqs' = [reqs EXCEPT ![s] = Done(r, 400)]
                /\ UNCHANGED store
           ELSE IF ~dbOk \/ ~uniqueOk(store, k, 0, data.name)
           THEN /\ reqs' = [reqs EXCEPT ![s] = Done(r, 500)]
                /\ UNCHANGED store
           ELSE /\ id # 0
                /\ store' = [store EXCEPT ![k][id] = createRecord(data)]
                /\ reqs' = [reqs EXCEPT ![s] = Done([r EXCEPT !.id = id], 201)]
        /\ UNCHANGED <<blobs, issued, prev, aside>>

---------------------------------------------------------------------------
(* api/<kind>/[id]/route.ts PUT *)

\* an update that looks the record up before it validates the body
PUT_find_existenceFirst(s, k, id, body, snap) ==
    LET r == [Idle EXCEPT !.method = "PUT", !.kind = k, !.id = id, !.body = body,
                          !.pre = snap]
        existing == findUnique(store, k, id)
    IN  /\ CanBegin(s)
        /\ reqs' = [reqs EXCEPT ![s] =
                      IF ~existing.live THEN Done(r, 404)
                      ELSE IF ~safeParse(body) THEN Done(r, 400)
                      ELSE [r EXCEPT !.pc = "found", !.existing = existing]]
        /\ UNCHANGED <<store, blobs, issued, prev, aside>>

\* safeParse, then findUnique
PUT_find(s, k, id, body, snap) ==
    LET r == [Idle EXCEPT !.method = "PUT", !.kind = k, !.id = id, !.body = body,
                          !.pre = snap]
        existing == findUnique(store, k, id)
    IN  /\ CanBegin(s)
        /\ reqs' = [reqs EXCEPT ![s] =
                      IF ~safeParse(body) THEN Done(r, 400)
                      ELSE IF ~existing.live THEN Done(r, 404)
                      ELSE [r EXCEPT !.pc = "found", !.existing = existing]]
        /\ UNCHANGED <<store, blobs, issued, prev, aside>>

\* an update that removes the old file before the write is acknowledged
PUT_update_unlinkFirst(s, dbOk) ==
    LET r == reqs[s]
        data == parsedData(r.body)
    IN  /\ r.pc = "found" /\ r.method = "PUT"
        /\ blobs' = IF putDeletesOld(r.existing, data)
                    THEN deleteUploadIfLocal(blobs, r.existing.imageUrl, TRUE)
                    ELSE blobs
        /\ IF ~dbOk \/ ~store[r.kind][r.id].live
              \/ ~uniqueOk(store, r.kind, r.id, data.name)
           THEN /\ reqs' = [reqs EXCEPT ![s] = Done(r, 500)]
                /\ UNCHANGED store
           ELSE /\ store' = [store EXCEPT ![r.kind][r.id] = putRecord(@, data)]
                /\ reqs' = Wrote(s)
        /\ UNCHANGED <<issued, prev, aside>>

\* prisma.<kind>.update({ where: { id }, data }); a rejected write throws
PUT_update(s, dbOk) ==
    LET r == reqs[s]
        data == parsedData(r.body)
    IN  /\ r.pc = "found" /\ r.method = "PUT"
        /\ IF ~dbOk \/ ~store[r.kind][r.id].live
              \/ ~uniqueOk(store, r.kind, r.id, data.name)
           THEN /\ reqs' = [reqs EXCEPT ![s] = Done(r, 500)]
                /\ UNCHANGED store
           ELSE /\ store' = [store EXCEPT ![r.kind][r.id] = putRecord(@, data)]
                /\ reqs' = Wrote(s)
        /\ UNCHANGED <<blobs, issued, prev, aside>>

\* a cleanup whose unlink error reaches the handler
PUT_unlink_throws(s, ioOk) ==
    LET r == reqs[s]
        data == parsedData(r.body)
        old == r.existing.imageUrl
    IN  /\ r.pc = "written" /\ r.method = "PUT"
        /\ IF putDeletesOld(r.existing, data)
           THEN /\ (isLocalUpload(old) \/ ioOk)
                /\ blobs' = deleteUploadIfLocal(blobs, old, ioOk)
                /\ reqs' = [reqs EXCEPT ![s] =
                              Done([r EXCEPT !.called = TRUE,
                                             !.unlinked = unlinkTarget(old),
                                             !.ioErr = isLocalUpload(old) /\ ~ioOk],
                                   IF isLocalUpload(old) /\ ~ioOk THEN 500 ELSE 200)]
           ELSE /\ ioOk
                /\ blobs' = blobs
                /\ reqs' = [reqs EXCEPT ![s] = Done(r, 200)]
        /\ UNCHANGED <<store, issued, prev, aside>>

\* the old file goes after the write, then the response
PUT_unlink(s, ioOk) ==
    LET r == reqs[s]
        data == parsedData(r.body)
        old == r.existing.imageUrl
    IN  /\ r.pc = "written" /\ r.method = "PUT"
        /\ IF putDeletesOld(r.existing, data)
           THEN /\ (isLocalUpload(old) \/ ioOk)
                /\ blobs' = deleteUploadIfLocal(blobs, old, ioOk)
                /\ reqs' = [reqs EXCEPT ![s] =
                              Done([r EXCEPT !.called = TRUE,
                                             !.unlinked = unlinkTarget(old),
                                             !.ioErr = isLocalUpload(old) /\ ~ioOk], 200)]
           ELSE /\ ioOk
                /\ blobs' = blobs
                /\ reqs' = [reqs EXCEPT ![s] = Done(r, 200)]
        /\ UNCHANGED <<store, issued, prev, aside>>

---------------------------------------------------------------------------
(* api/<kind>/[id]/route.ts DELETE *)

DELETE_find(s, k, id, snap) ==
    LET r == [Idle EXCEPT !.method = "DELETE", !.kind = k, !.id = id, !.pre = snap]
        existing == findUnique(store, k, id)
    IN  /\ CanBegin(s)
        /\ reqs' = [reqs EXCEPT ![s] =
                      IF ~existing.live THEN Done(r, 404)
                      ELSE [r EXCEPT !.pc = "found", !.existing = existing]]
        /\ UNCHANGED <<store, blobs, issued, prev, aside>>

\* a delete that removes the file before the row
DELETE_delete_unlinkFirst(s, dbOk) ==
    LET r == reqs[s]
    IN  /\ r.pc = "found" /\ r.method = "DELETE"
        /\ blobs' = deleteUploadIfLocal(blobs, r.existing.imageUrl, TRUE)
        /\ IF ~dbOk \/ ~store[r.kind][r.id].live
           THEN /\ reqs' = [reqs EXCEPT ![s] = Done(r, 500)]
                /\ UNCHANGED store
           ELSE /\ store' = [store EXCEPT ![r.kind][r.id] = NoRec]
                /\ reqs' = Wrote(s)
        /\ UNCHANGED <<issued, prev, aside>>

\* prisma.<kind>.delete({ where: { id } }); a missing row throws
DELETE_delete(s, dbOk) ==
    LET r == reqs[s]
    IN  /\ r.pc = "found" /\ r.method = "DELETE"
        /\ IF ~dbOk \/ ~store[r.kind][r.id].live
           THEN /\ reqs' = [reqs EXCEPT ![s] = Done(r, 500)]
                /\ UNCHANGED store
           ELSE /\ store' = [store EXCEPT ![r.kind][r.id] = NoRec]
                /\ reqs' = Wrote(s)
        /\ UNCHANGED <<blobs, issued, prev, aside>>

DELETE_unlink(s, ioOk) ==
    LET r == reqs[s]
        old == r.existing.imageUrl
    IN  /\ r.pc = "written" /\ r.method = "DELETE"
        /\ (isLocalUpload(old) \/ ioOk)
        /\ blobs' = deleteUploadIfLocal(blobs, old, ioOk)
        /\ reqs' = [reqs EXCEPT ![s] =
                      Done([r EXCEPT !.called = TRUE,
                                     !.unlinked = unlinkTarget(old),
                                     !.ioErr = isLocalUpload(old) /\ ~ioOk], 200)]
        /\ UNCHANGED <<store, issued, prev, aside>>

---------------------------------------------------------------------------
(* The steps every specification shares *)

StepUpdate == \E s \in Slots, dbOk \in BOOLEAN : PUT_update(s, dbOk)
StepPutUnlink == \E s \in Slots, ioOk \in BOOLEAN : PUT_unlink(s, ioOk)
StepDelete == \E s \in Slots, dbOk \in BOOLEAN : DELETE_delete(s, dbOk)
StepDeleteUnlink == \E s \in Slots, ioOk \in BOOLEAN : DELETE_unlink(s, ioOk)

Steps == StepUpdate \/ StepPutUnlink \/ StepDelete \/ StepDeleteUnlink

\* return NextResponse.json(...): the response leaves, the slot is free again
Respond ==
    \E s \in Slots :
        /\ reqs[s].pc = "done"
        /\ reqs' = [reqs EXCEPT ![s] = Idle]
        /\ UNCHANGED <<store, blobs, issued, prev, aside>>

\* the draft of a form and the locals of its submit handler
NoUi ==
    [pc |-> "idle", kind |-> "-", id |-> 0,
     file |-> NoFile,       \* draft._file: the file chosen, or none
     imageUrl |-> UNDEF,    \* draft.imageUrl
     unchose |-> FALSE,     \* a file was chosen and the choice taken back
     removed |-> FALSE,     \* Remove was clicked
     uploaded |-> UNDEF,    \* the local `uploaded` / `uploadedUrl` / `imageUrl`
     fresh |-> FALSE,       \* this submit has stored a new file
     status |-> 0,          \* the status of the entity response
     cleanup |-> UNDEF]     \* the address DELETE /api/upload was sent for

---------------------------------------------------------------------------
(* The in-memory db: _categories, _partners and the methods of db *)

\* a name is the sequence of its characters
Exchange == <<"E", "x", "c", "h", "a", "n", "g", "e">>
Brand == <<"B", "r", "a", "n", "d">>
Media == <<"M", "e", "d", "i", "a">>
exchange == <<"e", "x", "c", "h", "a", "n", "g", "e">>
Tools == <<"T", "o", "o", "l", "s">>

UPPERS == <<"A", "B", "C", "D", "E", "F", "G", "H", "I", "J", "K", "L", "M",
            "N", "O", "P", "Q", "R", "S", "T", "U", "V", "W", "X", "Y", "Z">>
LOWERS == <<"a", "b", "c", "d", "e", "f", "g", "h", "i", "j", "k", "l", "m",
            "n", "o", "p", "q", "r", "s", "t", "u", "v", "w", "x", "y", "z">>

lowerChar(c) ==
    IF \E i \in 1..Len(UPPERS) : UPPERS[i] = c
    THEN LOWERS[CHOOSE i \in 1..Len(UPPERS) : UPPERS[i] = c]
    ELSE c

\* String.prototype.toLowerCase
toLowerCase(name) == [i \in 1..Len(name) |-> lowerChar(name[i])]

\* the place of a letter in the alphabet, whatever its case
charRank(c) == CHOOSE i \in 1..Len(LOWERS) : LOWERS[i] = lowerChar(c)

\* a.localeCompare(b) < 0: by letters first, lower case before upper case
\* where the letters are the same
RECURSIVE lettersLess(_, _)
lettersLess(a, b) ==
    IF a = <<>> THEN b # <<>>
    ELSE IF b = <<>> THEN FALSE
    ELSE IF charRank(Head(a)) # charRank(Head(b)) THEN charRank(Head(a)) < charRank(Head(b))
    ELSE lettersLess(Tail(a), Tail(b))

RECURSIVE caseLess(_, _)
caseLess(a, b) ==
    IF a = <<>> \/ b = <<>> THEN FALSE
    ELSE IF Head(a) # Head(b) THEN Head(a) = lowerChar(Head(a))
    ELSE caseLess(Tail(a), Tail(b))

localeLess(a, b) ==
    \/ lettersLess(a, b)
    \/ (toLowerCase(a) = toLowerCase(b) /\ caseLess(a, b))

\* the string value of an id, as in Partner.categoryId
str(id) == <<"S", id>>

SeedCategories ==
    << [id |-> "cat_exch", name |-> Exchange],
       [id |-> "cat_brand", name |-> Brand],
       [id |-> "cat_media", name |-> Media] >>
SeedPartners ==
    << [id |-> "p_okx", name |-> "OKX", categoryId |-> str("cat_exch"), featured |-> TRUE] >>

\* newId(prefix): the outcomes of Math.random
NewCategoryIds == {"cat_1"}
NewPartnerIds == {"prtn_1"}
CategoryIds == {"cat_exch", "cat_brand", "cat_media"} \cup NewCategoryIds
PartnerIds == {"p_okx"} \cup NewPartnerIds
CategoryNames == {exchange, Tools}
\* the names a category is renamed to
NewNames == {exchange}

Range(seq) == {seq[i] : i \in 1..Len(seq)}
\* seq.filter((x) => x.id !== id)
RECURSIVE dropId(_, _)
dropId(seq, id) ==
    IF seq = <<>> THEN <<>>
    ELSE (IF Head(seq).id # id THEN <<Head(seq)>> ELSE <<>>) \o dropId(Tail(seq), id)
\* findIndex, 0 for -1
findIndex(seq, id) ==
    IF \E i \in 1..Len(seq) : seq[i].id = id
    THEN CHOOSE i \in 1..Len(seq) : seq[i].id = id /\ \A j \in 1..(i - 1) : seq[j].id # id
    ELSE 0

\* [..._categories].sort((a, b) => a.name.localeCompare(b.name))
RECURSIVE insertByName(_, _)
insertByName(x, seq) ==
    IF seq = <<>> THEN <<x>>
    ELSE IF localeLess(x.name, Head(seq).name) THEN <<x>> \o seq
    ELSE <<Head(seq)>> \o insertByName(x, Tail(seq))
RECURSIVE sortByName(_)
sortByName(seq) ==
    IF seq = <<>> THEN <<>>
    ELSE insertByName(Head(seq), sortByName(Tail(seq)))

\* db.listCategories()
listCategories(cats) == sortByName(cats)

\* a call: the method, its id and name arguments, whether it threw, and
\* whether it returned a record or true rather than null or false
NoRet == [op |-> "-", id |-> "-", name |-> <<>>, threw |-> FALSE, found |-> FALSE]
Called(op, id, name) == [NoRet EXCEPT !.op = op, !.id = id, !.name = name]

\* db.createCategory(name): throws when the name is taken, whatever the case
createCategory(name, id) ==
    LET exists == \E c \in Range(categories) : toLowerCase(c.name) = toLowerCase(name)
    IN  IF exists
        THEN /\ ret' = [Called("createCategory", "-", name) EXCEPT !.threw = TRUE]
             /\ UNCHANGED <<categories, partners>>
        ELSE /\ id \notin {c.id : c \in Range(categories)}
             /\ categories' = <<[id |-> id, name |-> name]>> \o categories
             /\ ret' = [Called("createCategory", id, name) EXCEPT !.found = TRUE]
             /\ UNCHANGED partners

\* db.updateCategory(id, name): null when the id is unknown
updateCategory(id, name) ==
    LET idx == findIndex(categories, id)
    IN  /\ IF idx = 0
           THEN UNCHANGED categories
           ELSE categories' = [categories EXCEPT ![idx].name = name]
        /\ ret' = [Called("updateCategory", id, name) EXCEPT !.found = idx # 0]
        /\ UNCHANGED partners

\* db.deleteCategory(id): detaches the partners, then drops the category
deleteCategory(id) ==
    LET detach(p) == IF p.categoryId = str(id) THEN [p EXCEPT !.categoryId = EMPTY] ELSE p
    IN  /\ partners' = [i \in 1..Len(partners) |-> detach(partners[i])]
        /\ categories' = dropId(categories, id)
        /\ ret' = [Called("deleteCategory", id, <<>>) EXCEPT
                      !.found = Len(dropId(categories, id)) < Len(categories)]

\* db.createPartner(data)
createPartner(categoryId, id) ==
    /\ id \notin {q.id : q \in Range(partners)}
    /\ partners' = <<[id |-> id, name |-> "OKX", categoryId |-> categoryId,
                      featured |-> FALSE]>> \o partners
    /\ ret' = [Called("createPartner", id, <<>>) EXCEPT !.found = TRUE]
    /\ UNCHANGED categories

\* db.updatePartner(id, patch) with patch = { categoryId }
updatePartner(id, categoryId) ==
    LET idx == findIndex(partners, id)
    IN  /\ IF idx = 0
           THEN UNCHANGED partners
           ELSE partners' = [partners EXCEPT ![idx].categoryId = categoryId]
        /\ ret' = [Called("updatePartner", id, <<>>) EXCEPT !.found = idx # 0]
        /\ UNCHANGED categories

\* db.deletePartner(id)
deletePartner(id) ==
    /\ partners' = dropId(partners, id)
    /\ ret' = [Called("deletePartner", id, <<>>) EXCEPT
                  !.found = Len(dropId(partners, id)) < Len(partners)]
    /\ UNCHANGED categories

---------------------------------------------------------------------------
(* middleware.ts, lib/auth.ts, api/login/route.ts and lib/mockUsers.ts *)

\* a pathname is the sequence of its pieces, cut where a public prefix ends:
\* "/api/login" is <<"/api", "/login">>, "/uploads/a.jpg" is
\* <<"/uploads", "/", "a.jpg">>
PUBLIC_PREFIXES ==
    {<<"/login">>, <<"/api", "/login">>, <<"/_next", "/">>, <<"/favicon.ico">>,
     <<"/public", "/">>, <<"/images", "/">>, <<"/uploads", "/">>}

\* String.prototype.startsWith
startsWith(s, p) == Len(p) <= Len(s) /\ SubSeq(s, 1, Len(p)) = p

isPublic(pathname) ==
    \E p \in PUBLIC_PREFIXES : pathname = p \/ startsWith(pathname, p)

MOCK_USERS ==
    {[id |-> "u_admin_1", email |-> "qian@trlco.world", password |-> "admin123",
      role |-> "admin"],
     [id |-> "u_ops_1", email |-> "ops@trlco.local", password |-> "ops123",
      role |-> "editor"]}

\* a JWT: the key it is signed with, whether its exp is still ahead, and the
\* sub of its payload (UNDEF when the payload has none)
jwt(key, exp, sub) == <<"J", key, exp, sub>>
\* issueSession: signed with SECRET, expiring in 12 hours
sessionToken(user) == jwt("SECRET", "ahead", str(user.id))

\* jwtVerify(token, SECRET): throws unless the token is a JWT signed with
\* SECRET whose exp lies ahead
jwtVerify(token) == token[1] = "J" /\ token[2] = "SECRET" /\ token[3] = "ahead"

\* !token
noToken(token) == token \in {UNDEF, EMPTY}

\* readSession() !== null
readSession(token) ==
    /\ ~noToken(token)
    /\ jwtVerify(token)
    /\ token[4] # UNDEF

\* the cookies a request may carry: none, the empty string, a string that is
\* no JWT, and tokens of either key, live or expired, with and without a sub
Tokens ==
    {UNDEF, EMPTY, <<"S", "garbage">>}
        \cup {jwt(k, e, s) : k \in {"SECRET", "other"}, e \in {"ahead", "past"},
                             s \in {str("u_admin_1"), UNDEF}}

Pathnames ==
    {<<"/">>, <<"/dashboard">>, <<"/partner">>, <<"/announcement">>,
     <<"/api", "/partners">>, <<"/api", "/partners", "/1">>, <<"/api", "/categories">>,
     <<"/api", "/announcements">>, <<"/api", "/upload">>,
     <<"/login">>, <<"/login", "x">>, <<"/api", "/login">>,
     <<"/uploads", "/", "a.jpg">>, <<"/uploads">>, <<"/_next", "/", "static.js">>,
     <<"/favicon.ico">>}

\* the routes under /api answer fetch calls, the others are pages
isApi(pathname) == startsWith(pathname, <<"/api">>)

NoGate == [pathname |-> <<>>, token |-> UNDEF, verdict |-> "-", status |-> 0,
           location |-> <<>>, next |-> <<>>]

\* NextResponse.redirect(url): 307 to /login?next=<pathname>
redirectToLogin(pathname) ==
    [verdict |-> "redirect", status |-> 307, location |-> <<"/login">>, next |-> pathname]

\* NextResponse.next(): the request goes on to its route
forward == [verdict |-> "next", status |-> 0, location |-> <<>>, next |-> <<>>]

middleware(pathname, token) ==
    IF isPublic(pathname) THEN forward
    ELSE IF noToken(token) THEN redirectToLogin(pathname)
    ELSE IF jwtVerify(token) THEN forward
    ELSE redirectToLogin(pathname)

\* the credentials a login is tried with
Emails == {"qian@trlco.world", "ops@trlco.local", "eve@x.y", "bad"}
Passwords == {"admin123", "ops123", "no"}
\* z.string().email() and z.string().min(3)
loginValid(email, password) == email # "bad" /\ password # "no"

\* POST /api/login: 400, 401, or the cookie set and 200
loginStatus(email, password) ==
    IF ~loginValid(email, password) THEN 400
    ELSE IF \E u \in MOCK_USERS : u.email = email /\ u.password = password THEN 200
    ELSE 401

login(email, password) ==
    LET user == CHOOSE u \in MOCK_USERS : u.email = email /\ u.password = password
    IN  /\ jar' = IF loginStatus(email, password) = 200 THEN sessionToken(user) ELSE jar
        /\ gate' = [pathname |-> <<"/api", "/login">>, token |-> jar,
                    verdict |-> "next", status |-> loginStatus(email, password),
                    location |-> <<>>, next |-> <<>>]

\* a request arrives at the middleware with the cookie it carries
request(pathname, token) ==
    /\ gate' = [pathname |-> pathname, token |-> token] @@ middleware(pathname, token)
    /\ UNCHANGED jar

---------------------------------------------------------------------------
(* api/<kind>/route.ts GET: findMany with orderBy *)

\* a row: its table, id, name or title, createdAt, and for an announcement
\* its datePublished (0 where the table has no such column)
RowIds == 1..MaxRows
Times == {1, 2}
Dates == {1, 2}
ListNames == <<"Al", "Bo", "Cy">>

rowsOf(k) == {r \in table : r.kind = k}

\* the id of a new row: one no row has
freshRowId ==
    IF \E i \in RowIds : \A r \in table : r.id # i
    THEN CHOOSE i \in RowIds : (\A r \in table : r.id # i)
                                /\ \A j \in 1..(i - 1) : \E r \in table : r.id = j
    ELSE 0

\* the place of a name in the order of the database
nameRank(n) == CHOOSE i \in 1..Len(ListNames) : ListNames[i] = n

\* an order by the creation time alone
before_createdOnly(k, a, b) ==
    CASE k = "category" -> nameRank(a.name) < nameRank(b.name)
      [] OTHER -> a.createdAt > b.createdAt

\* a comes before b under the orderBy of the kind: name asc; createdAt desc;
\* datePublished desc, then createdAt desc
before(k, a, b) ==
    CASE k = "category" -> nameRank(a.name) < nameRank(b.name)
      [] k = "partner" -> a.createdAt > b.createdAt
      [] OTHER -> \/ a.datePublished > b.datePublished
                  \/ (a.datePublished = b.datePublished /\ a.createdAt > b.createdAt)

\* the answers findMany can give: every row of the table once, no row
\* after one it comes before; rows that tie come in any order
findMany(k) ==
    LET n == Cardinality(rowsOf(k))
    IN  {items \in [1..n -> rowsOf(k)] :
            /\ \A i, j \in 1..n : i # j => items[i] # items[j]
            /\ \A i, j \in 1..n : i < j => ~before(k, items[j], items[i])}

NoListing == [kind |-> "-", items |-> <<>>]

\* GET: { items }
GET(k) ==
    /\ \E items \in findMany(k) : listing' = [kind |-> k, items |-> items]
    /\ UNCHANGED table

\* a row is created now: createdAt is no earlier than that of any row
createRow(k, id, name, now, date) ==
    /\ Cardinality(table) < MaxRows
    /\ \A r \in table : r.id # id /\ r.createdAt <= now
    /\ k = "category" => \A r \in rowsOf(k) : r.name # name
    /\ table' = table \cup {[kind |-> k, id |-> id, name |-> name, createdAt |-> now,
                             datePublished |-> IF k = "announcement" THEN date ELSE 0]}
    /\ listing' = NoListing

\* a row is deleted
deleteRow(r) ==
    /\ table' = table \ {r}
    /\ listing' = NoListing

\* nothing uploaded through the observed route yet, no form open, the db as
\* the module sets it up, no session, no request seen, no row listed
AsideInit ==
    /\ up = NoUp /\ ui = NoUi
    /\ categories = SeedCategories /\ partners = SeedPartners /\ ret = NoRet
    /\ jar = UNDEF /\ gate = NoGate
    /\ table = {} /\ listing = NoListing

---------------------------------------------------------------------------
(* Spec: requests of all kinds, handled one at a time *)

Init ==
    /\ store = EmptyStore
    /\ blobs = {}
    /\ issued = {}
    /\ reqs = [s \in Slots |-> Idle]
    /\ prev = NoPrev
    /\ AsideInit

SeqUpload == Serial(1) /\ Upload

SeqPOST == \E k \in Kinds, body \in Bodies, dbOk \in BOOLEAN :
    Serial(1) /\ POST(1, k, body, dbOk, Snapshot)

SeqPUT == \E k \in Kinds, id \in Ids, body \in Bodies :
    Serial(1) /\ PUT_find(1, k, id, body, Snapshot)

SeqDELETE == \E k \in Kinds, id \in Ids :
    Serial(1) /\ DELETE_find(1, k, id, Snapshot)

Next == SeqUpload \/ SeqPOST \/ SeqPUT \/ SeqDELETE \/ Steps \/ Respond

Spec == Init /\ [][Next]_vars

---------------------------------------------------------------------------
(* SpecLive: as Spec, and every Set(address) names a file that exists when *)
(* the request arrives                                                     *)

SigLive(body) ==
    LET v == imageUrlSchema(body.imageUrl)
    IN  (safeParse(body) /\ isLocalUpload(v)) => toFsPath(v) \in blobs

LivePOST == \E k \in Kinds, body \in Bodies, dbOk \in BOOLEAN :
    Serial(1) /\ SigLive(body) /\ POST(1, k, body, dbOk, Snapshot)

LivePUT == \E k \in Kinds, id \in Ids, body \in Bodies :
    Serial(1) /\ SigLive(body) /\ PUT_find(1, k, id, body, Snapshot)

NextLive == SeqUpload \/ LivePOST \/ LivePUT \/ SeqDELETE \/ Steps \/ Respond

SpecLive == Init /\ [][NextLive]_vars

---------------------------------------------------------------------------
(* SpecHist: one at a time on the records of one kind, the request         *)
(* answered last kept in prev                                              *)

SameKind(k) == prev.kind \in {"-", k}

HistPOST == \E k \in Kinds, body \in Bodies, dbOk \in BOOLEAN :
    Serial(1) /\ SameKind(k) /\ POST(1, k, body, dbOk, Snapshot)

HistPUT == \E k \in Kinds, id \in Ids, body \in Bodies :
    Serial(1) /\ SameKind(k) /\ PUT_find(1, k, id, body, Snapshot)

HistDELETE == \E k \in Kinds, id \in Ids :
    Serial(1) /\ SameKind(k) /\ DELETE_find(1, k, id, Snapshot)

Summary(r) ==
    [method |-> r.method, kind |-> r.kind, id |-> r.id,
     imageUrl |-> r.body.imageUrl, status |-> r.status, unlinked |-> r.unlinked]

RespondHist ==
    \E s \in Slots :
        /\ reqs[s].pc = "done"
        /\ prev' = Summary(reqs[s])
        /\ reqs' = [reqs EXCEPT ![s] = Idle]
        /\ UNCHANGED <<store, blobs, issued, aside>>

NextHist == SeqUpload \/ HistPOST \/ HistPUT \/ HistDELETE \/ Steps \/ RespondHist

SpecHist == Init /\ [][NextHist]_vars

---------------------------------------------------------------------------
(* SpecConc: two requests on one record, their steps interleaved.  The     *)
(* record exists and every uploaded file is in place, as after Upload and  *)
(* POST.                                                                   *)

\* each of the two clients sends its own name, so a write tells its author
ConcName(s) == IF s = 1 THEN "Al" ELSE "Bo"
ConcBodies(s) == [name : {ConcName(s)}, imageUrl : {UNDEF, NULLV, UrlExt} \cup UploadUrls]

InitConc ==
    /\ \E k \in Kinds, img \in {NULLV} \cup UploadUrls :
          store = [EmptyStore EXCEPT ![k][1] = [live |-> TRUE, name |-> "Al", imageUrl |-> img]]
    /\ blobs = {uploadPath(n) : n \in FileNames}
    /\ issued = FileNames
    /\ reqs = [s \in Slots |-> Idle]
    /\ prev = NoPrev
    /\ AsideInit

ConcPUT == \E s \in Slots, k \in Kinds, id \in Ids : \E body \in ConcBodies(s) :
    /\ store[k][id].live
    /\ SigLive(body)
    /\ PUT_find(s, k, id, body, NoSnap)

ConcDELETE == \E s \in Slots, k \in Kinds, id \in Ids :
    /\ store[k][id].live
    /\ DELETE_find(s, k, id, NoSnap)

NextConc == ConcPUT \/ ConcDELETE \/ Steps \/ Respond

SpecConc == InitConc /\ [][NextConc]_vars

---------------------------------------------------------------------------
(* SpecRace: as SpecConc, with a store that is always there: a write fails *)
(* only by what another request has done to the record                     *)

RaceUpdate == \E s \in Slots : PUT_update(s, TRUE)
RaceDelete == \E s \in Slots : DELETE_delete(s, TRUE)

NextRace ==
    ConcPUT \/ ConcDELETE \/ RaceUpdate \/ StepPutUnlink \/ RaceDelete
        \/ StepDeleteUnlink \/ Respond

SpecRace == InitConc /\ [][NextRace]_vars

---------------------------------------------------------------------------
(* SpecTrav: one at a time, the bodies carrying addresses that point out  *)
(* of public/uploads, with files outside that directory in place           *)

\* "/uploads/../secret.txt", "/uploads/../../.env", "/uploads/./a.jpg",
\* " /uploads/a.jpg "
UrlTrav == <<"S", "/uploads/", "..", "secret.txt">>
UrlTravUp == <<"S", "/uploads/", "..", "..", ".env">>
UrlDot == <<"S", "/uploads/", ".", FileName(1)>>
UrlPadded == <<"S", " ", "/uploads/", FileName(1), " ">>

OutsideFiles == {<<"cwd", "public", "secret.txt">>, <<"cwd", ".env">>}

\* "  ": nothing but whitespace
UrlBlank == <<"S", " ", " ">>

TravImages ==
    {UNDEF, NULLV, EMPTY, UrlBlank, UrlExt, UrlTrav, UrlTravUp, UrlDot, UrlPadded, UrlA}
\* with them two bodies the schemas turn away: a name of one character, and
\* an address that is neither under /uploads/ nor http(s)
TravBodies ==
    [name : {"Al"}, imageUrl : TravImages]
        \cup {[name |-> "x", imageUrl |-> UrlA], [name |-> "Al", imageUrl |-> UrlFtp]}

InitTrav ==
    /\ store = EmptyStore
    /\ blobs = OutsideFiles \cup {uploadPath(n) : n \in FileNames}
    /\ issued = FileNames
    /\ reqs = [s \in Slots |-> Idle]
    /\ prev = NoPrev
    /\ AsideInit

TravPOST == \E k \in Kinds, body \in TravBodies, dbOk \in BOOLEAN :
    Serial(1) /\ POST(1, k, body, dbOk, Snapshot)

TravPUT == \E k \in Kinds, id \in Ids, body \in TravBodies :
    Serial(1) /\ PUT_find(1, k, id, body, Snapshot)

NextTrav == TravPOST \/ TravPUT \/ SeqDELETE \/ Steps \/ Respond

SpecTrav == InitTrav /\ [][NextTrav]_vars

---------------------------------------------------------------------------
(* SpecUpload: the upload route on its own, its last answer kept in up *)

UpPOST ==
    \E file \in UpFiles, stamp \in Stamps :
        /\ UploadPOST(file, stamp)
        /\ up' = [method |-> "POST", file |-> file, query |-> UNDEF,
                  status |-> uploadResponse(file, stamp).status,
                  error |-> uploadResponse(file, stamp).error,
                  url |-> uploadResponse(file, stamp).url,
                  pre |-> [blobs |-> blobs, issued |-> issued]]
        /\ UNCHANGED <<ui, dbVars, authVars, listVars>>

UpDELETE ==
    \E url \in {uploadUrl(n) : n \in issued} \cup {UrlA, UrlExt, UrlTrav} :
        /\ UploadDELETE(url)
        /\ up' = [method |-> "DELETE", file |-> NoFile, query |-> url,
                  status |-> 405, error |-> "-", url |-> UNDEF,
                  pre |-> [blobs |-> blobs, issued |-> issued]]
        /\ UNCHANGED <<ui, dbVars, authVars, listVars>>

NextUpload == UpPOST \/ UpDELETE

SpecUpload == Init /\ [][NextUpload]_vars

---------------------------------------------------------------------------
(* SpecForm: the forms of the three pages, submitted one at a time: the   *)
(* upload, the entity request, and the catch block when either fails       *)

\* a ?? b
nullish(a, b) == IF a \in {UNDEF, NULLV} THEN b ELSE a

\* draft.imageUrl as the form opens: openCreate and startEdit leave it
\* undefined, openEdit of a partner or an announcement copies the record's
\* address
openImage(k, id) ==
    IF id = 0 \/ k = "category" THEN UNDEF
    ELSE nullish(store[k][id].imageUrl, UNDEF)

\* a value that passes for true in a condition
truthy(v) == IsString(v) /\ v # EMPTY

\* draft.imageUrl after onFileChange(file): the announcement form drops it
\* when the choice of a file is taken back
onFileChange(k, file, img) ==
    IF k = "announcement" /\ ~file.isFile THEN UNDEF ELSE img

\* the Remove button is on the page
removeShown(k, id, file, img) ==
    CASE k = "category" /\ id = 0 -> file.isFile
      [] k = "category" /\ id # 0 ->
            file.isFile \/ img = NULLV \/ truthy(store[k][id].imageUrl)
      [] OTHER -> file.isFile \/ truthy(img)

\* draft._file after Remove: the announcement form sets the draft of the
\* last render again, its _file with it, and imageUrl null
removeFile(k, file) == IF k = "announcement" THEN file ELSE NoFile

\* the value of `uploaded` when no file is chosen
noFileImage(k, id, img) ==
    IF k = "category"
    THEN (IF id = 0 THEN NULLV ELSE nullish(img, UNDEF))
    ELSE nullish(img, NULLV)

\* the imageUrl of the payload
payloadImage(k, id, uploaded) ==
    IF k = "category" /\ id = 0 THEN nullish(uploaded, NULLV) ELSE uploaded

\* the condition of the cleanup in the catch block; the announcement form
\* has none
cleanupDue(k, id, uploaded) ==
    LET local == IsString(uploaded) /\ Len(uploaded) >= 2 /\ uploaded[2] = "/uploads/"
    IN  CASE k = "category" -> local
          [] k = "partner" -> local /\ id # 0
          [] OTHER -> FALSE

FormFiles ==
    {NoFile} \cup {f \in JpegFiles : f.size \in {MAX_BYTES, MAX_BYTES + 1}}

\* the form opens: for a new record, or on an existing one
FormOpen ==
    \E k \in Kinds, id \in {0} \cup Ids :
        /\ ui.pc = "idle" /\ Serial(1)
        /\ id # 0 => store[k][id].live
        /\ ui' = [NoUi EXCEPT !.pc = "editing", !.kind = k, !.id = id,
                              !.imageUrl = openImage(k, id)]
        /\ UNCHANGED <<store, blobs, issued, reqs, prev, up, dbVars, authVars, listVars>>

\* the file input changes: another file, or none
FormFileChange ==
    \E file \in FormFiles :
        /\ ui.pc = "editing" /\ file # ui.file
        /\ ui' = [ui EXCEPT !.file = file,
                            !.imageUrl = onFileChange(ui.kind, file, ui.imageUrl),
                            !.unchose = ui.unchose \/ ~file.isFile]
        /\ UNCHANGED <<store, blobs, issued, reqs, prev, up, dbVars, authVars, listVars>>

\* Remove is clicked
FormRemove ==
    /\ ui.pc = "editing" /\ removeShown(ui.kind, ui.id, ui.file, ui.imageUrl)
    /\ ui' = [ui EXCEPT !.file = removeFile(ui.kind, ui.file), !.imageUrl = NULLV,
                        !.removed = TRUE]
    /\ UNCHANGED <<store, blobs, issued, reqs, prev, up, dbVars, authVars, listVars>>

\* add / save / submitDraft is pressed on a valid draft
FormSubmit ==
    /\ ui.pc = "editing"
    /\ ui' = [ui EXCEPT !.pc = "submitted"]
    /\ UNCHANGED <<store, blobs, issued, reqs, prev, up, dbVars, authVars, listVars>>

\* upload / uploadFileIfNeeded: a rejected upload throws
FormUpload ==
    /\ ui.pc = "submitted"
    /\ IF ui.file.isFile
       THEN \E stamp \in Stamps :
                /\ UploadPOST(ui.file, stamp)
                /\ ui' = IF uploadResponse(ui.file, stamp).status = 201
                         THEN [ui EXCEPT !.pc = "uploaded", !.fresh = TRUE,
                                         !.uploaded = uploadResponse(ui.file, stamp).url]
                         ELSE [ui EXCEPT !.pc = "caught"]
       ELSE /\ ui' = [ui EXCEPT !.pc = "uploaded",
                                !.uploaded = noFileImage(ui.kind, ui.id, ui.imageUrl)]
            /\ UNCHANGED <<store, blobs, issued, reqs, prev>>
    /\ UNCHANGED <<up, dbVars, authVars, listVars>>

\* api(...): POST for a new record, PUT for an existing one
FormSend ==
    LET body == [name |-> "Al", imageUrl |-> payloadImage(ui.kind, ui.id, ui.uploaded)]
    IN  /\ ui.pc = "uploaded"
        /\ IF ui.id = 0
           THEN \E dbOk \in BOOLEAN : POST(1, ui.kind, body, dbOk, Snapshot)
           ELSE PUT_find(1, ui.kind, ui.id, body, Snapshot)

\* the response arrives: api throws unless res.ok
FormReceive ==
    /\ ui.pc = "uploaded" /\ reqs[1].pc = "done"
    /\ ui' = [ui EXCEPT !.pc = IF reqs[1].status \in 200..299 THEN "saved" ELSE "caught",
                        !.status = reqs[1].status]
    /\ reqs' = [reqs EXCEPT ![1] = Idle]
    /\ UNCHANGED <<store, blobs, issued, prev, up, dbVars, authVars, listVars>>

\* catch: DELETE /api/upload?url=... when the condition holds, then the alert
FormCatch ==
    /\ ui.pc = "caught"
    /\ IF cleanupDue(ui.kind, ui.id, ui.uploaded)
       THEN /\ UploadDELETE(ui.uploaded)
            /\ ui' = [ui EXCEPT !.pc = "alerted", !.cleanup = ui.uploaded]
       ELSE /\ ui' = [ui EXCEPT !.pc = "alerted"]
            /\ UNCHANGED <<store, blobs, issued, reqs, prev>>
    /\ UNCHANGED <<up, dbVars, authVars, listVars>>

\* the form is closed or reset
FormClose ==
    /\ ui.pc \in {"saved", "alerted"}
    /\ ui' = NoUi
    /\ UNCHANGED <<store, blobs, issued, reqs, prev, up, dbVars, authVars, listVars>>

NextForm ==
    FormOpen \/ FormFileChange \/ FormRemove \/ FormSubmit \/ FormUpload \/ FormSend \/ StepUpdate \/ StepPutUnlink
        \/ FormReceive \/ FormCatch \/ FormClose

SpecForm == Init /\ [][NextForm]_vars

---------------------------------------------------------------------------
(* SpecMem: the methods of the in-memory db, called in any order *)

webVars == <<store, blobs, issued, reqs, prev, up, ui, authVars, listVars>>

\* the categoryId a caller passes: the id of a category, known or not
PartnerCategories == {str(id) : id \in {"cat_exch", "cat_brand"}}

MemCreateCategory == \E name \in CategoryNames, id \in NewCategoryIds :
    createCategory(name, id) /\ UNCHANGED webVars
MemUpdateCategory == \E id \in CategoryIds, name \in NewNames :
    updateCategory(id, name) /\ UNCHANGED webVars
MemDeleteCategory == \E id \in CategoryIds :
    deleteCategory(id) /\ UNCHANGED webVars
MemCreatePartner == \E c \in PartnerCategories, id \in NewPartnerIds :
    createPartner(c, id) /\ UNCHANGED webVars
MemUpdatePartner == \E id \in PartnerIds, c \in PartnerCategories :
    updatePartner(id, c) /\ UNCHANGED webVars
MemDeletePartner == \E id \in PartnerIds :
    deletePartner(id) /\ UNCHANGED webVars

NextMem ==
    MemCreateCategory \/ MemUpdateCategory \/ MemDeleteCategory
        \/ MemCreatePartner \/ MemUpdatePartner \/ MemDeletePartner

SpecMem == Init /\ [][NextMem]_vars

---------------------------------------------------------------------------
(* SpecGate: logins, and requests of any path with any cookie *)

restVars == <<store, blobs, issued, reqs, prev, up, ui, dbVars, listVars>>

GateLogin == \E email \in Emails, password \in Passwords :
    login(email, password) /\ UNCHANGED restVars

\* the browser sends the cookie it holds
GateBrowse == \E pathname \in Pathnames :
    request(pathname, jar) /\ UNCHANGED restVars

\* any client sends any cookie
GateRequest == \E pathname \in Pathnames, token \in Tokens :
    request(pathname, token) /\ UNCHANGED restVars

NextGate == GateLogin \/ GateBrowse \/ GateRequest

SpecGate == Init /\ [][NextGate]_vars

---------------------------------------------------------------------------
(* SpecList: rows come and go, and the lists are read *)

otherVars == <<store, blobs, issued, reqs, prev, up, ui, dbVars, authVars>>

\* the names and dates that tell rows apart in a list: a category has a
\* name of its own, an announcement a publication date
ListInputs(k) ==
    [name : IF k = "category" THEN {ListNames[i] : i \in 1..Len(ListNames)} ELSE {"Al"},
     date : IF k = "announcement" THEN Dates ELSE {0}]

ListCreate ==
    \E k \in Kinds, now \in Times :
    \E input \in ListInputs(k) :
        createRow(k, freshRowId, input.name, now, input.date) /\ UNCHANGED otherVars

ListDelete == \E r \in table : deleteRow(r) /\ UNCHANGED otherVars

ListGET == \E k \in Kinds : GET(k) /\ UNCHANGED otherVars

NextList == ListCreate \/ ListDelete \/ ListGET

SpecList == Init /\ [][NextList]_vars

---------------------------------------------------------------------------
(* Properties *)

\* the record a request is about, now and when the request arrived
Cur(r) == store[r.kind][r.id]
Pre(r) == r.pre.store[r.kind][r.id]
\* the image signal a body decodes to: UNDEF no change, NULLV clear, a string set
Sig(r) == imageUrlSchema(r.body.imageUrl)
Sent(r) == r.pc # "idle" /\ r.id # 0
Answered(r, m, code) == r.pc = "done" /\ r.method = m /\ r.status = code

\* C1: an update of an existing record whose body omits imageUrl leaves the
\* record's imageUrl as it was, whatever happens to the name, calls no
\* deleteUploadIfLocal and leaves the files alone; the name is written.
C1_NoChangeKeepsImage ==
    \A s \in Slots :
        LET r == reqs[s] IN
        (Sent(r) /\ r.method = "PUT" /\ safeParse(r.body) /\ r.body.imageUrl = UNDEF
            /\ Pre(r).live)
        => /\ Cur(r).imageUrl = Pre(r).imageUrl
           /\ ~r.called /\ r.unlinked = UNDEF
           /\ blobs = r.pre.blobs
           /\ (Answered(r, "PUT", 200) => Cur(r).name = r.body.name)

C1_Witness ==
    \E s \in Slots :
        LET r == reqs[s] IN
        /\ Answered(r, "PUT", 200) /\ r.body.imageUrl = UNDEF
        /\ Pre(r).imageUrl = UrlA /\ Cur(r).imageUrl = UrlA
        /\ Pre(r).name # Cur(r).name
        /\ toFsPath(UrlA) \in blobs

\* the second of two updates answered 200 in a row on one record, both Set
SetAfterSet(r) ==
    /\ Answered(r, "PUT", 200) /\ IsString(Sig(r))
    /\ prev.method = "PUT" /\ prev.status = 200
    /\ prev.kind = r.kind /\ prev.id = r.id
    /\ IsString(imageUrlSchema(prev.imageUrl))
    /\ imageUrlSchema(prev.imageUrl) # Sig(r)

\* C2 as stated: after Set(a) then Set(b), a # b, on one record, the record
\* holds b and a was deleted exactly once, by the second update, b never.
C2_SetSetDeletesOnce ==
    LET r == reqs[1] IN
    SetAfterSet(r)
    => /\ Cur(r).imageUrl = Sig(r)
       /\ r.unlinked = imageUrlSchema(prev.imageUrl)
       /\ prev.unlinked # imageUrlSchema(prev.imageUrl)
       /\ r.unlinked # Sig(r)

\* C2 amended: after Set(a) then Set(b), a # b, on one record, the record
\* holds b; when a is a managed upload (under /uploads/, no "..") the
\* second update calls unlink exactly once, for a, the first update does not
\* unlink a, and unless unlink fails the file of a is gone; when a is not a
\* managed upload (an external URL) nothing is unlinked.
C2_SetSetDeletesLocalOnce ==
    LET r == reqs[1]
        a == imageUrlSchema(prev.imageUrl)
    IN
    SetAfterSet(r)
    => /\ Cur(r).imageUrl = Sig(r)
       /\ r.called
       /\ r.unlinked # Sig(r)
       /\ prev.unlinked # a
       /\ IF isLocalUpload(a)
          THEN r.unlinked = a /\ (~r.ioErr => toFsPath(a) \notin blobs)
          ELSE r.unlinked = UNDEF /\ blobs = r.pre.blobs

C2_Witness ==
    LET r == reqs[1] IN
    /\ SetAfterSet(r)
    /\ imageUrlSchema(prev.imageUrl) = UrlA
    /\ r.unlinked = UrlA
    /\ toFsPath(UrlA) \in r.pre.blobs
    /\ toFsPath(UrlA) \notin blobs

\* C3: Clear on a record without an image calls no deleteUploadIfLocal,
\* unlinks nothing and leaves imageUrl null: the record after the update is
\* again one without an image, so a further Clear finds the same case.
C3_ClearOnAbsentIsNoop ==
    \A s \in Slots :
        LET r == reqs[s] IN
        (Sent(r) /\ r.method = "PUT" /\ safeParse(r.body) /\ Sig(r) = NULLV
            /\ Pre(r).live /\ Pre(r).imageUrl = NULLV)
        => /\ Cur(r).imageUrl = NULLV
           /\ ~r.called /\ r.unlinked = UNDEF
           /\ blobs = r.pre.blobs
           /\ (Answered(r, "PUT", 200) => Cur(r) = [Pre(r) EXCEPT !.name = r.body.name])

C3_Witness ==
    \E s \in Slots :
        LET r == reqs[s] IN
        /\ Answered(r, "PUT", 200) /\ r.body.imageUrl = NULLV
        /\ Pre(r).live /\ Pre(r).imageUrl = NULLV
        /\ blobs # {}

\* C4: Clear on a record whose image is a managed upload a, answered 200,
\* leaves imageUrl null and unlinks a: unless unlink fails with an I/O
\* error, the file of a is no longer there.
C4_ClearDeletesBlob ==
    \A s \in Slots :
        LET r == reqs[s] IN
        (Answered(r, "PUT", 200) /\ r.body.imageUrl = NULLV
            /\ isLocalUpload(Pre(r).imageUrl))
        => /\ Cur(r).imageUrl = NULLV
           /\ r.called /\ r.unlinked = Pre(r).imageUrl
           /\ (~r.ioErr => toFsPath(Pre(r).imageUrl) \notin blobs)

C4_Witness ==
    \E s \in Slots :
        LET r == reqs[s] IN
        /\ Answered(r, "PUT", 200) /\ r.body.imageUrl = NULLV
        /\ Pre(r).imageUrl = UrlA
        /\ toFsPath(UrlA) \in r.pre.blobs
        /\ toFsPath(UrlA) \notin blobs
        /\ Cur(r).imageUrl = NULLV

\* the update answered 200 right after the create of its record, the create
\* with Set, the update without imageUrl
NoChangeAfterCreate(r) ==
    /\ Answered(r, "PUT", 200) /\ r.body.imageUrl = UNDEF
    /\ prev.method = "POST" /\ prev.status = 201
    /\ prev.kind = r.kind /\ prev.id = r.id
    /\ IsString(imageUrlSchema(prev.imageUrl))

\* C5: a create with Set(a) answered 201 leaves a record whose imageUrl is a,
\* and an update without imageUrl right after it leaves imageUrl a, calls no
\* deleteUploadIfLocal and leaves the files alone.
C5_CreateThenNoChange ==
    LET r == reqs[1] IN
    /\ (Answered(r, "POST", 201) /\ IsString(Sig(r))) => Cur(r).imageUrl = Sig(r)
    /\ NoChangeAfterCreate(r)
       => /\ Cur(r).imageUrl = imageUrlSchema(prev.imageUrl)
          /\ ~r.called /\ r.unlinked = UNDEF
          /\ blobs = r.pre.blobs

C5_Witness ==
    LET r == reqs[1] IN
    /\ NoChangeAfterCreate(r)
    /\ prev.imageUrl = UrlA
    /\ Cur(r).imageUrl = UrlA
    /\ toFsPath(UrlA) \in blobs

\* C6 as stated: with requests one at a time, every Set naming a file that is
\* there when the request arrives, no live record holds a managed upload
\* address whose file is gone.
C6_NoMissingBlob ==
    \A k \in Kinds, i \in Ids :
        (store[k][i].live /\ isLocalUpload(store[k][i].imageUrl))
        => toFsPath(store[k][i].imageUrl) \in blobs

\* C7 as stated: no two live records hold the same upload address.
C7_AtMostOneRef ==
    \A k1 \in Kinds, k2 \in Kinds, i1 \in Ids, i2 \in Ids :
        (/\ <<k1, i1>> # <<k2, i2>>
         /\ store[k1][i1].live /\ store[k2][i2].live
         /\ isLocalUpload(store[k1][i1].imageUrl))
        => store[k1][i1].imageUrl # store[k2][i2].imageUrl

\* C8: an update calls deleteUploadIfLocal only in the step after its own
\* store write, with the written record in the store and its imageUrl other
\* than the one found; it unlinks only the address found, a managed upload;
\* the files change in no other step of an update; an update whose store
\* write failed is answered with nothing unlinked and the files and the store
\* as they were.
C8_DeleteAfterWrite ==
    [][\A s \in Slots :
        LET r == reqs[s]
            q == reqs'[s]
        IN
        /\ (r.method = "PUT" /\ r.pc # "done" /\ q.pc = "done" /\ q.called)
           => /\ r.pc = "written"
              /\ Cur(r) = putRecord(r.existing, parsedData(r.body))
              /\ Cur(r).imageUrl # r.existing.imageUrl
              /\ store' = store
        /\ (r.method = "PUT" /\ r.pc # "done" /\ q.pc = "done" /\ q.unlinked # UNDEF)
           => /\ q.called
              /\ isLocalUpload(r.existing.imageUrl)
              /\ q.unlinked = r.existing.imageUrl
        /\ (r.method = "PUT" /\ r.pc # "idle" /\ q.pc # "idle" /\ blobs' # blobs)
           => r.pc = "written" /\ q.unlinked # UNDEF
        /\ Answered(q, "PUT", 500)
           => /\ ~q.called /\ q.unlinked = UNDEF
              /\ blobs' = q.pre.blobs
              /\ store' = q.pre.store
    ]_vars

C8_Witness ==
    \E s \in Slots :
        LET r == reqs[s] IN
        /\ Answered(r, "PUT", 200)
        /\ r.unlinked = UrlA /\ r.existing.imageUrl = UrlA
        /\ Cur(r).imageUrl = UrlExt
        /\ toFsPath(UrlA) \in r.pre.blobs /\ toFsPath(UrlA) \notin blobs

\* both slots hold an answered update of the same record
BothUpdated ==
    /\ Answered(reqs[1], "PUT", 200) /\ Answered(reqs[2], "PUT", 200)
    /\ reqs[1].kind = reqs[2].kind /\ reqs[1].id = reqs[2].id

C10_UpdateMissingIs404 ==
    \A s \in Slots :
        LET r == reqs[s] IN
        (r.pc = "done" /\ r.method = "PUT" /\ safeParse(r.body) /\ ~Pre(r).live)
        => /\ r.status = 404
           /\ store = r.pre.store
           /\ blobs = r.pre.blobs
           /\ ~r.called /\ r.unlinked = UNDEF

C10_Witness ==
    \E s \in Slots :
        LET r == reqs[s] IN
        /\ Answered(r, "PUT", 404)
        /\ r.body.imageUrl = UrlA
        /\ toFsPath(UrlA) \in blobs
        /\ \E k \in Kinds, i \in Ids : store[k][i].live

\* C11: a delete of an id without a record is answered 404 with the store and
\* the files as they were and nothing unlinked; a delete of an existing record
\* calls deleteUploadIfLocal only in the step after its own store delete, with
\* the record gone from the store; answered 200 ({ ok: true }) the store is
\* the one found without the record, the address unlinked is the record's
\* managed upload (its file gone unless unlink fails), and for a record
\* without a managed upload the files are as they were; the files change in
\* no other step of a delete, and a delete whose store write failed unlinks
\* nothing.
C11_DeleteRecordThenBlob ==
    [][\A s \in Slots :
        LET r == reqs[s]
            q == reqs'[s]
            old == q.pre.store[q.kind][q.id]
        IN
        /\ (q.pc = "done" /\ q.method = "DELETE" /\ ~old.live)
           => /\ q.status = 404
              /\ store' = q.pre.store /\ blobs' = q.pre.blobs
              /\ ~q.called /\ q.unlinked = UNDEF
        /\ (r.method = "DELETE" /\ r.pc # "done" /\ q.pc = "done" /\ q.called)
           => /\ r.pc = "written"
              /\ ~store[r.kind][r.id].live
              /\ store' = store
              /\ q.status = 200
        /\ (r.method = "DELETE" /\ r.pc # "idle" /\ q.pc # "idle" /\ blobs' # blobs)
           => r.pc = "written" /\ q.unlinked = r.existing.imageUrl
        /\ Answered(q, "DELETE", 200)
           => /\ old.live /\ q.called
              /\ store' = [q.pre.store EXCEPT ![q.kind][q.id] = NoRec]
              /\ IF isLocalUpload(old.imageUrl)
                 THEN /\ q.unlinked = old.imageUrl
                      /\ ~q.ioErr => toFsPath(old.imageUrl) \notin blobs'
                 ELSE q.unlinked = UNDEF /\ blobs' = q.pre.blobs
        /\ Answered(q, "DELETE", 500)
           => /\ ~q.called /\ q.unlinked = UNDEF
              /\ blobs' = q.pre.blobs /\ store' = q.pre.store
    ]_vars

C11_Witness ==
    \E s \in Slots :
        LET r == reqs[s] IN
        /\ Answered(r, "DELETE", 200)
        /\ Pre(r).live /\ Pre(r).imageUrl = UrlA /\ r.unlinked = UrlA
        /\ ~Cur(r).live
        /\ toFsPath(UrlA) \in r.pre.blobs /\ toFsPath(UrlA) \notin blobs

\* the answer of the step after the store write, but for the unlink error
AfterWrite(r) ==
    LET calls == r.method = "DELETE" \/ putDeletesOld(r.existing, parsedData(r.body))
    IN  Done([r EXCEPT !.called = calls,
                       !.unlinked = IF calls THEN unlinkTarget(r.existing.imageUrl)
                                             ELSE UNDEF], 200)

\* C12: the step of an update or a delete that follows its store write always
\* ends the request with 200, whether unlink removes the file, finds it
\* missing or fails with an I/O error: the answer is the same in the three
\* cases, the store is left as written, and what is written is the update's
\* record or, for a delete, no record; when unlink fails the files are as
\* they were.
C12_UnlinkFailureTolerated ==
    [][\A s \in Slots :
        LET r == reqs[s]
            q == reqs'[s]
        IN
        (r.pc = "written" /\ q.pc # "written")
        => /\ q.pc = "done" /\ q.status = 200
           /\ [q EXCEPT !.ioErr = FALSE] = AfterWrite(r)
           /\ store' = store
           /\ q.ioErr => blobs' = blobs
           /\ q.lastWrite
              => store[r.kind][r.id] =
                    IF r.method = "DELETE" THEN NoRec
                    ELSE putRecord(r.existing, parsedData(r.body))
    ]_vars

C12_Witness ==
    \E s \in Slots :
        LET r == reqs[s] IN
        /\ Answered(r, "PUT", 200) /\ r.ioErr
        /\ r.unlinked = UrlA /\ toFsPath(UrlA) \in blobs
        /\ Cur(r).imageUrl = NULLV /\ Cur(r).name # r.existing.name

\* the address starts with /uploads/ and has no ".." in it
Managed(url) ==
    /\ IsString(url) /\ Len(url) >= 2 /\ url[2] = "/uploads/"
    /\ ".." \notin {url[i] : i \in 2..Len(url)}

\* the path lies in <cwd>/public/uploads
InUploadDir(path) == Len(path) > 3 /\ SubSeq(path, 1, 3) = <<"cwd", "public", "uploads">>

\* C13: unlink is called only for an address that starts with /uploads/ and
\* has no "..", and the path it is called for lies in public/uploads; when
\* the address of the record is null, an external URL or one with "..",
\* deleteUploadIfLocal unlinks nothing and the files are as they were; an
\* empty address is stored as null; whatever entity requests are made, the
\* files outside public/uploads stay in place.
C13_OnlyManagedRemoved ==
    /\ OutsideFiles \subseteq blobs
    /\ \A k \in Kinds, i \in Ids : store[k][i].imageUrl # EMPTY
    /\ \A s \in Slots :
          LET r == reqs[s] IN
          /\ r.unlinked # UNDEF
             => /\ r.unlinked = r.existing.imageUrl
                /\ Managed(r.unlinked)
                /\ InUploadDir(toFsPath(r.unlinked))
          /\ (r.called /\ ~Managed(r.existing.imageUrl))
             => r.unlinked = UNDEF /\ blobs = r.pre.blobs

C13_Witness ==
    \E s \in Slots :
        LET r == reqs[s] IN
        /\ Answered(r, "PUT", 200) /\ r.called
        /\ r.existing.imageUrl = UrlTrav /\ r.unlinked = UNDEF
        /\ Cur(r).imageUrl = NULLV
        /\ toFsPath(UrlTrav) \in blobs /\ toFsPath(UrlTrav) \in OutsideFiles

\* C14: an upload of a file whose type is none of image/jpeg, image/png,
\* image/webp, image/gif is answered with a 4xx status and the message of
\* the type check, also when the file is larger than 5 MiB (the type is
\* checked before the size); no name is issued and the files are as they
\* were.
C14_BadTypeRejected ==
    (up.method = "POST" /\ up.file.isFile
        /\ up.file.type \notin {"image/jpeg", "image/png", "image/webp", "image/gif"})
    => /\ up.status \in 400..499
       /\ up.error = "Unsupported file type"
       /\ up.url = UNDEF
       /\ blobs = up.pre.blobs /\ issued = up.pre.issued

C14_Witness ==
    /\ up.method = "POST" /\ up.file.type = "application/pdf"
    /\ up.file.size > 5242880
    /\ up.status = 400 /\ up.error = "Unsupported file type"
    /\ blobs # {} /\ blobs = up.pre.blobs

\* C15: an upload of a file of an allowed type is answered 400 with the
\* message of the size check, the files as they were, exactly when its size
\* is above 5242880 bytes; otherwise, a file of exactly 5242880 bytes
\* included, it is answered 201 with the address of exactly one new file,
\* a managed upload address that maps to that file.
C15_SizeLimit ==
    (up.method = "POST" /\ up.file.isFile
        /\ up.file.type \in {"image/jpeg", "image/png", "image/webp", "image/gif"})
    => IF up.file.size > 5242880
       THEN /\ up.status = 400 /\ up.error = "File too large (max 5MB)"
            /\ up.url = UNDEF
            /\ blobs = up.pre.blobs /\ issued = up.pre.issued
       ELSE /\ up.status = 201 /\ up.error = "-"
            /\ Managed(up.url)
            /\ toFsPath(up.url) \notin up.pre.blobs
            /\ blobs = up.pre.blobs \cup {toFsPath(up.url)}
            /\ Cardinality(blobs) = Cardinality(up.pre.blobs) + 1

C15_Witness ==
    /\ up.method = "POST" /\ up.file.type = "image/png"
    /\ up.file.size = 5242880
    /\ up.status = 201
    /\ up.url = <<"S", "/uploads/", "a.png">>
    /\ up.pre.blobs = {} /\ blobs = {<<"cwd", "public", "uploads", "a.png">>}

\* C16 as stated: DELETE on the upload route with an address is answered
\* with an acknowledgment, and when the address is a managed upload its
\* file is gone afterwards.
C16_UploadDeleteRemoves ==
    up.method = "DELETE"
    => /\ up.status \in 200..299
       /\ Managed(up.query) => toFsPath(up.query) \notin blobs

\* C17 as stated: when a submit has stored a new file and its entity request
\* was then answered with an error, DELETE /api/upload has been sent for the
\* address of that file by the time the error is shown, and the file is gone.
C17_FailedRequestCleansUp ==
    (ui.pc = "alerted" /\ ui.fresh /\ ui.status # 0)
    => /\ ui.cleanup = ui.uploaded
       /\ toFsPath(ui.uploaded) \notin blobs

\* the places of the partners that reference the category
Referencing(ps, id) == {i \in 1..Len(ps) : ps[i].categoryId = str(id)}

\* C18 as stated: deleteCategory(id) of the in-memory db leaves every partner
\* in place, the partners that referenced the category with categoryId null
\* or absent and otherwise as they were, the other partners untouched, and
\* the category is not in the listing that follows.
C18_DeleteCategoryDetaches ==
    [][ret'.op = "deleteCategory"
       => LET id == ret'.id IN
          /\ Len(partners') = Len(partners)
          /\ \A i \in 1..Len(partners) :
                IF i \in Referencing(partners, id)
                THEN /\ partners'[i].categoryId \in {NULLV, UNDEF}
                     /\ partners'[i] = [partners[i] EXCEPT !.categoryId = partners'[i].categoryId]
                ELSE partners'[i] = partners[i]
          /\ \A c \in Range(listCategories(categories')) : c.id # id
    ]_vars

\* C19 as stated: no two categories of the in-memory db have names that are
\* equal ignoring case.
C19_NamesUniqueIgnoringCase ==
    \A i \in 1..Len(categories), j \in 1..Len(categories) :
        i # j => toLowerCase(categories[i].name) # toLowerCase(categories[j].name)

\* a create of a category, answered, whose name an existing category has
DuplicateCreate(r) ==
    /\ r.pc = "done" /\ r.method = "POST" /\ r.kind = "category"
    /\ safeParse(r.body)
    /\ \E i \in Ids : r.pre.store["category"][i].live
                       /\ r.pre.store["category"][i].name = parsedData(r.body).name

\* C20 as stated: a create of a category whose name an existing category has
\* creates no record and leaves the store as it was, and the handler answers
\* with an error result of its own, a 4xx response with an error body, not
\* with a created record.
C20_DuplicateIsErrorResult ==
    \A s \in Slots :
        LET r == reqs[s] IN
        DuplicateCreate(r)
        => /\ store = r.pre.store
           /\ r.status # 201
           /\ r.status \in 400..499

\* the request the middleware saw last needed a session and had none
Unauthenticated ==
    /\ gate.verdict # "-"
    /\ ~isPublic(gate.pathname)
    /\ (noToken(gate.token) \/ ~jwtVerify(gate.token))

\* C21 as stated: a request of a path off the public list that carries no
\* session cookie, or one whose token fails verification, is not forwarded
\* to its route: a page request is redirected to /login and a request of
\* an /api route is answered 401.
C21_GateRejects ==
    Unauthenticated
    => /\ gate.verdict # "next"
       /\ IF isApi(gate.pathname)
          THEN gate.status = 401
          ELSE gate.verdict = "redirect" /\ gate.location = <<"/login">>

\* the listing holds every row of its table once and no other row
ListsAll ==
    /\ {listing.items[i] : i \in 1..Len(listing.items)} = rowsOf(listing.kind)
    /\ Len(listing.items) = Cardinality(rowsOf(listing.kind))

\* C22 as stated: GET list answers with every live record of the kind once
\* and no other, by name ascending for categories and by creation time
\* descending for partners and for announcements.
C22_ListOrderedByCreation ==
    listing.kind # "-"
    => /\ ListsAll
       /\ \A i, j \in 1..Len(listing.items) :
             i < j => IF listing.kind = "category"
                      THEN nameRank(listing.items[i].name) < nameRank(listing.items[j].name)
                      ELSE listing.items[i].createdAt >= listing.items[j].createdAt

\* C22 amended: GET list answers with every live record of the kind once and
\* no other, by name ascending for categories, by creation time descending
\* for partners, and for announcements by publication date descending, the
\* creation time descending deciding only between equal publication dates.
C22_ListOrdered ==
    listing.kind # "-"
    => /\ ListsAll
       /\ \A i, j \in 1..Len(listing.items) :
             i < j =>
                LET a == listing.items[i]
                    b == listing.items[j]
                IN  CASE listing.kind = "category" -> nameRank(a.name) < nameRank(b.name)
                      [] listing.kind = "partner" -> a.createdAt >= b.createdAt
                      [] OTHER -> \/ a.datePublished > b.datePublished
                                  \/ /\ a.datePublished = b.datePublished
                                     /\ a.createdAt >= b.createdAt

C22_Witness ==
    /\ listing.kind = "announcement" /\ Len(listing.items) = 2
    /\ listing.items[1].createdAt < listing.items[2].createdAt
    /\ listing.items[1].datePublished > listing.items[2].datePublished
    /\ \E r \in table : r.kind = "partner"

\* C23: a create or an update of any kind whose body fails validation is
\* answered 400 at once; the store and the files are as they were when the
\* request arrived, deleteUploadIfLocal is not called and nothing is
\* unlinked; for an update this is so whether the id has a record or not.
C23_InvalidIs400 ==
    \A s \in Slots :
        LET r == reqs[s] IN
        (r.pc # "idle" /\ r.method \in {"POST", "PUT"} /\ ~safeParse(r.body))
        => /\ r.pc = "done" /\ r.status = 400
           /\ store = r.pre.store
           /\ blobs = r.pre.blobs
           /\ ~r.called /\ r.unlinked = UNDEF

C23_Witness ==
    \E s \in Slots :
        LET r == reqs[s] IN
        /\ Answered(r, "PUT", 400) /\ r.body.name = "x" /\ r.body.imageUrl = UrlA
        /\ Pre(r).live /\ Pre(r).imageUrl = UrlDot
        /\ Cur(r) = Pre(r)
        /\ toFsPath(UrlDot) \in blobs
        /\ ~r.pre.store["partner"][1].live

\* C24: an update of a record that holds the address a with a body that
\* decodes to Set(a), the same address, leaves the record holding a, calls
\* no deleteUploadIfLocal, unlinks nothing and leaves the files as they
\* were; answered 200, the record is the old one but for the name.
C24_SetSameKeepsBlob ==
    \A s \in Slots :
        LET r == reqs[s] IN
        (Sent(r) /\ r.method = "PUT" /\ safeParse(r.body) /\ Pre(r).live
            /\ IsString(Sig(r)) /\ Sig(r) = Pre(r).imageUrl)
        => /\ Cur(r).imageUrl = Pre(r).imageUrl
           /\ ~r.called /\ r.unlinked = UNDEF
           /\ blobs = r.pre.blobs
           /\ (Answered(r, "PUT", 200) => Cur(r) = [Pre(r) EXCEPT !.name = r.body.name])

C24_Witness ==
    \E s \in Slots :
        LET r == reqs[s] IN
        /\ Answered(r, "PUT", 200) /\ r.body.imageUrl = UrlA /\ r.kind = "partner"
        /\ Pre(r).imageUrl = UrlA /\ Cur(r).imageUrl = UrlA
        /\ Pre(r).name # Cur(r).name
        /\ toFsPath(UrlA) \in r.pre.blobs /\ toFsPath(UrlA) \in blobs

\* the update a form has sent for a record with a managed upload, no file
\* chosen, after Remove was clicked, is answered
RemoveSaved(k) ==
    LET r == reqs[1] IN
    /\ ui.pc = "uploaded" /\ ui.kind = k /\ ui.id # 0
    /\ ~ui.file.isFile /\ ui.imageUrl = NULLV
    /\ r.pc = "done" /\ r.method = "PUT"
    /\ isLocalUpload(Pre(r).imageUrl)

\* C25 as stated: Remove then Save in the category edit form, no file
\* chosen, on a category with an image, sends an update with imageUrl
\* null; answered 200, the record has no image and its old file was
\* unlinked.
C25_CategoryRemoveClears ==
    LET r == reqs[1] IN
    RemoveSaved("category")
    => /\ r.body.imageUrl = NULLV
       /\ r.status = 200
          => /\ Cur(r).imageUrl = NULLV
             /\ r.unlinked = Pre(r).imageUrl

\* a string of whitespace only, the empty string included
Blank(v) == IsString(v) /\ \A i \in 2..Len(v) : v[i] = " "
\* the string starts with /uploads/ or with http:// or https://
StartsAsAddress(v) ==
    IsString(v) /\ Len(v) >= 2 /\ v[2] \in {"/uploads/", "http://", "https://"}
\* a create or an update whose name or title is valid has been looked at
Decoded(r) == r.pc # "idle" /\ r.method \in {"POST", "PUT"} /\ nameValid(r.body.name)
\* the body was turned away / was decoded to the signal sig
TurnedAway(r) == r.pc = "done" /\ r.status = 400
DecodedTo(r, sig) ==
    /\ r.status # 400
    /\ parsedData(r.body).imageUrl = sig
    /\ Answered(r, "POST", 201) => Cur(r).imageUrl = nullish(sig, NULLV)

\* C26 as stated: for every kind, a body without imageUrl decodes to
\* NoChange, one with null or with an empty or whitespace-only string to
\* Clear, one with a string that starts with /uploads/ or http(s):// to Set of
\* that very string, and a body with any other string is turned away.
C26_DecodesAsSent ==
    \A s \in Slots :
        LET r == reqs[s]
            v == r.body.imageUrl
        IN
        Decoded(r)
        => CASE v = UNDEF -> DecodedTo(r, UNDEF)
             [] v = NULLV \/ Blank(v) -> DecodedTo(r, NULLV)
             [] StartsAsAddress(v) -> DecodedTo(r, v)
             [] OTHER -> TurnedAway(r)

\* C26 amended: for every kind, a body without imageUrl decodes to NoChange,
\* one with null or with an empty or whitespace-only string to Clear; any
\* other string is first stripped of the whitespace at its ends: when what
\* is left starts with /uploads/ or http(s):// the body decodes to Set of the
\* stripped string, otherwise the body is turned away.
C26_DecodesTrimmed ==
    \A s \in Slots :
        LET r == reqs[s]
            v == r.body.imageUrl
        IN
        Decoded(r)
        => CASE v = UNDEF -> DecodedTo(r, UNDEF)
             [] v = NULLV \/ Blank(v) -> DecodedTo(r, NULLV)
             [] StartsAsAddress(trim(v)) -> DecodedTo(r, trim(v))
             [] OTHER -> TurnedAway(r)

C26_Witness ==
    \E s \in Slots :
        LET r == reqs[s] IN
        /\ Answered(r, "PUT", 200) /\ r.kind = "announcement"
        /\ r.body.imageUrl = UrlBlank
        /\ Pre(r).imageUrl = UrlA /\ r.pre.store["category"][1].imageUrl = UrlA
        /\ Cur(r).imageUrl = NULLV
        /\ r.pre.store["partner"][1].live /\ r.pre.store["partner"][1].imageUrl = NULLV

\* the extension that goes with a media type
TypeExt(type) ==
    CASE type = "image/jpeg" -> ".jpg"
      [] type = "image/png" -> ".png"
      [] type = "image/webp" -> ".webp"
      [] type = "image/gif" -> ".gif"
      [] OTHER -> "?"

\* C27: the address an accepted upload is answered with starts with
\* /uploads/, has no ".." in it and passes isLocalUpload; toFsPath of it is
\* the one file the upload has written, so that deleteUploadIfLocal of the
\* address takes exactly that file away and leaves the files as they were
\* before the upload; the name in the address is a stamp followed by the
\* extension of the declared media type, whatever the name of the file.
C27_AddressMapsBack ==
    (up.method = "POST" /\ up.status = 201)
    => /\ Managed(up.url) /\ isLocalUpload(up.url)
       /\ blobs \ up.pre.blobs = {toFsPath(up.url)}
       /\ InUploadDir(toFsPath(up.url))
       /\ deleteUploadIfLocal(blobs, up.url, TRUE) = up.pre.blobs
       /\ \E stamp \in Stamps :
             up.url = <<"S", "/uploads/", stamp \o TypeExt(up.file.type)>>

C27_Witness ==
    /\ up.method = "POST" /\ up.status = 201
    /\ up.file.type = "image/webp" /\ up.file.ext = ".exe"
    /\ up.url = <<"S", "/uploads/", "a.webp">>
    /\ blobs = {<<"cwd", "public", "uploads", "a.webp">>}

\* C28 as stated: with the steps of two requests on one record interleaved
\* in any way, every answer is 200 (the updated record, or { ok: true }) or
\* 404, never the 500 of a store error no handler catches, and of two
\* deletes answered side by side exactly one is answered 200.
C28_RaceOutcomesDocumented ==
    /\ \A s \in Slots : reqs[s].pc = "done" => reqs[s].status \in {200, 404}
    /\ (\A s \in Slots : reqs[s].pc = "done" /\ reqs[s].method = "DELETE")
       => Cardinality({s \in Slots : reqs[s].status = 200}) = 1

\* C29 as stated: in the announcement edit form on a record with an image,
\* an update sent after a file was chosen and the choice taken back, Remove
\* never clicked and no file left chosen, leaves the record's image as it
\* was, calls no deleteUploadIfLocal and leaves the files alone; an update
\* with imageUrl null is sent only after Remove was clicked.
C29_UnchooseKeepsImage ==
    LET r == reqs[1] IN
    (ui.pc = "uploaded" /\ ui.kind = "announcement" /\ ui.id # 0
        /\ r.pc = "done" /\ r.method = "PUT" /\ isLocalUpload(Pre(r).imageUrl))
    => /\ Sig(r) = NULLV => ui.removed
       /\ (ui.unchose /\ ~ui.removed /\ ~ui.file.isFile)
          => /\ Cur(r).imageUrl = Pre(r).imageUrl
             /\ ~r.called /\ r.unlinked = UNDEF
             /\ blobs = r.pre.blobs

\* the ids the categories and the partners have
IdsOf(seq) == {seq[i].id : i \in 1..Len(seq)}

\* C30 as stated: deleteCategory(id) of the in-memory db returns true
\* exactly when a category with the id existed, and when it returns false
\* the categories and the partners, every categoryId included, are as they
\* were; deletePartner, updatePartner and updateCategory of an id that is
\* not there return false or null and leave the categories and the partners
\* as they were.
C30_FailureLeavesStore ==
    [][/\ ret'.op = "deleteCategory"
          => /\ ret'.found <=> ret'.id \in IdsOf(categories)
             /\ ~ret'.found => categories' = categories /\ partners' = partners
       /\ (ret'.op \in {"deletePartner", "updatePartner"} /\ ret'.id \notin IdsOf(partners))
          => ~ret'.found /\ categories' = categories /\ partners' = partners
       /\ (ret'.op = "updateCategory" /\ ret'.id \notin IdsOf(categories))
          => ~ret'.found /\ categories' = categories /\ partners' = partners
    ]_vars

====
